---------------------------- MODULE Spec2Model ----------------------------
(***************************************************************************)
(* Model of the fungi-taxonomy application.                                *)
(*                                                                         *)
(*  - data/fungi-taxonomy (src/unnamed/part_001): createTaxonFrame and the *)
(*    module body that builds the frames, links them through their         *)
(*    children mappings and exports the root as fungiTaxonomy.             *)
(*  - app/components/TaxonomyLevel.tsx: the recursive React component with *)
(*    its two useState booleans per mounted instance.                      *)
(*  - app/page (src/unnamed/part_002): Home renders one TaxonomyLevel with *)
(*    data = fungiTaxonomy and level = 0.                                  *)
(*                                                                         *)
(* A JavaScript object used as a string-keyed mapping is a sequence of     *)
(* <<key, value>> pairs in insertion order (the order Object.entries       *)
(* yields for non-integer keys; no key used here is integer-like).  An     *)
(* object with optional properties is a record whose DOMAIN holds exactly  *)
(* the properties that are set.  Object references are indices into heap.  *)
(***************************************************************************)
EXTENDS Integers, Sequences, FiniteSets, TLC

(***************************************************************************)
(* Bounds of the model.                                                    *)
(***************************************************************************)
\* at most this many instances are expanded at once
MaxExpanded == 2
\* at most this many instances show their description at once
MaxShown == 2
\* createTaxonFrame calls explored by the free-standing specification
MaxFrames == 1
\* children assignments explored by the free-standing specification
MaxLinks == 1

\* the null reference (parentFrame = null, nothing exported, nothing mounted)
Null == 0

(***************************************************************************)
(* String-keyed mappings.                                                  *)
(***************************************************************************)
HasKey(m, k) == \E i \in 1..Len(m) : m[i][1] = k

Lookup(m, k) == m[CHOOSE i \in 1..Len(m) : m[i][1] = k][2]

\* Object.keys(m)
ObjectKeys(m) == [i \in 1..Len(m) |-> m[i][1]]

\* Object.entries(m)
ObjectEntries(m) == m

\* m[k] = v : an existing key keeps its position, a new key is appended
AssignKey(m, k, v) ==
  IF HasKey(m, k)
    THEN [i \in 1..Len(m) |-> IF m[i][1] = k THEN <<k, v>> ELSE m[i]]
    ELSE Append(m, <<k, v>>)

\* JavaScript truthiness of an optional string property
Truthy(obj, prop) == prop \in DOMAIN obj /\ obj[prop] # ""

(***************************************************************************)
(* createTaxonFrame({ name, rank, description, attributes = {} },          *)
(*                  parentFrame = null)                                    *)
(* h is the heap the parent reference is read from.  The returned frame    *)
(* is a fresh object; the caller stores it.  A description that was not    *)
(* passed is an undefined property of the frame: it is left out of the     *)
(* record, which every reader of it (data.description && ...) treats alike.*)
(***************************************************************************)
\* mutation: no default for a missing attributes option
createTaxonFrame_NoDefault(h, opts, parentFrame) ==
  LET base  == [name |-> opts.name, rank |-> opts.rank, children |-> <<>>]
      withA == IF "attributes" \in DOMAIN opts
                 THEN base @@ [attributes |-> opts.attributes]
                 ELSE base
      frame == IF "description" \in DOMAIN opts
                 THEN withA @@ [description |-> opts.description]
                 ELSE withA
  IN IF parentFrame # Null /\ Truthy(h[parentFrame], "domain")
       THEN frame @@ [inheritedDomain |-> h[parentFrame].domain]
       ELSE frame

\* mutation: the domain is inherited through every generation
createTaxonFrame_InheritsTransitively(h, opts, parentFrame) ==
  LET attributes == IF "attributes" \in DOMAIN opts THEN opts.attributes ELSE <<>>
      base  == [name |-> opts.name, rank |-> opts.rank,
                attributes |-> attributes, children |-> <<>>]
      frame == IF "description" \in DOMAIN opts
                 THEN base @@ [description |-> opts.description]
                 ELSE base
  IN IF parentFrame # Null /\ Truthy(h[parentFrame], "domain")
       THEN frame @@ [inheritedDomain |-> h[parentFrame].domain]
       ELSE IF parentFrame # Null /\ Truthy(h[parentFrame], "inheritedDomain")
         THEN frame @@ [inheritedDomain |-> h[parentFrame].inheritedDomain]
         ELSE frame

createTaxonFrame(h, opts, parentFrame) ==
  LET attributes == IF "attributes" \in DOMAIN opts THEN opts.attributes ELSE <<>>
      base  == [name |-> opts.name, rank |-> opts.rank,
                attributes |-> attributes, children |-> <<>>]
      frame == IF "description" \in DOMAIN opts
                 THEN base @@ [description |-> opts.description]
                 ELSE base
  IN IF parentFrame # Null /\ Truthy(h[parentFrame], "domain")
       THEN frame @@ [inheritedDomain |-> h[parentFrame].domain]
       ELSE frame

\* frame.domain = value
AssignDomain(h, ref, value) ==
  [h EXCEPT ![ref] = [domain |-> value] @@ @]

\* parent.children[key] = child
AssignChild(h, parent, key, child) ==
  [h EXCEPT ![parent] = [@ EXCEPT !.children = AssignKey(@, key, child)]]

(***************************************************************************)
(* The module body of data/fungi-taxonomy, statement by statement.         *)
(* "line" is the line of the statement in src/unnamed/part_001.            *)
(***************************************************************************)
FrameStatements == <<
  [op |-> "create", line |-> 53, var |-> "kingdomFungi",
   opts |-> [name |-> "Fungi", rank |-> "Kingdom",
            description |-> "Eukaryotic (with true nuclei); acellular, unicellular, or multicellular with hyphae; cell walls composed of chitin and/or polysaccharides; at least 99,000 species described.",
            attributes |-> <<>>]],
  [op |-> "domain", line |-> 61, var |-> "kingdomFungi", value |-> "Eukaryota"],
  [op |-> "create", line |-> 64, var |-> "phylumChytridiomycota",
   opts |-> [name |-> "Chytridiomycota", rank |-> "Phylum",
            description |-> "Mainly aquatic, some are parasitic or saprotrophic; unicellular or filamentous; chitin and glucan cell wall; primarily asexual reproduction by motile spores (zoospores); contains 2 classes.",
            attributes |-> <<>>], parentFrame |-> "kingdomFungi"],
  [op |-> "create", line |-> 76, var |-> "classChytridiomycetes",
   opts |-> [name |-> "Chytridiomycetes", rank |-> "Class",
            description |-> "Aquatic parasitic (on algae, fungi, or flowering plants) or saprotrophic; unicellular or filamentous; motile cells characterized by a single posterior flagellum; monocentric thallus or polycentric rhizomycelial; contains 3 orders.",
            attributes |-> <<>>], parentFrame |-> "phylumChytridiomycota"],
  [op |-> "create", line |-> 88, var |-> "orderChytridiales",
   opts |-> [name |-> "Chytridiales", rank |-> "Order",
            description |-> "Mainly found in soil; examples of genera include Chytridium, Chytriomyces, and Nowakowskiella.",
            attributes |-> <<>>], parentFrame |-> "classChytridiomycetes"],
  [op |-> "create", line |-> 100, var |-> "genusChytridium",
   opts |-> [name |-> "Chytridium", rank |-> "Genus",
            description |-> "A genus of chytrids found in soil, characterized by its unique motile spores.",
            attributes |-> <<<<"habitat", "Soil">>, <<"reproduction", "Asexual reproduction via motile zoospores">>, <<"cellStructure", "Unicellular or simple filamentous structures">>>>], parentFrame |-> "orderChytridiales"],
  [op |-> "create", line |-> 116, var |-> "orderRhizophydiales",
   opts |-> [name |-> "Rhizophydiales", rank |-> "Order",
            description |-> "Aquatic parasitic (on algae) or saprotrophic (in soil or on pollen, keratin, or chitin); sporangia spherical or angular; rhizoids branched; example genus is Rhizophydium.",
            attributes |-> <<>>], parentFrame |-> "classChytridiomycetes"],
  [op |-> "create", line |-> 128, var |-> "orderSpizellomycetales",
   opts |-> [name |-> "Spizellomycetales", rank |-> "Order",
            description |-> "Parasitic on soil organisms and plants; holocarpic or eucarpic; example genera include Spizellomyces and Powellomyces.",
            attributes |-> <<>>], parentFrame |-> "classChytridiomycetes"],
  [op |-> "create", line |-> 140, var |-> "classMonoblepharidomycetes",
   opts |-> [name |-> "Monoblepharidomycetes", rank |-> "Class",
            description |-> "Asexual reproduction by zoospores or autospores; filamentous, branched or unbranched thallus; contains 1 order.",
            attributes |-> <<>>], parentFrame |-> "phylumChytridiomycota"],
  [op |-> "create", line |-> 152, var |-> "orderMonoblepharidales",
   opts |-> [name |-> "Monoblepharidales", rank |-> "Order",
            description |-> "Sexual reproduction by motile gamete (antherozoid) fertilizing nonmotile egg, resulting in thick-walled oospore; example genus is Monoblepharis.",
            attributes |-> <<>>], parentFrame |-> "classMonoblepharidomycetes"],
  [op |-> "create", line |-> 164, var |-> "phylumNeocallimastigomycota",
   opts |-> [name |-> "Neocallimastigomycota", rank |-> "Phylum",
            description |-> "Found in digestive tracts of herbivores; anaerobic; zoospores with one or more posterior flagella; lacks mitochondria but contains hydrogenosomes (hydrogen-producing, membrane-bound organelles).",
            attributes |-> <<>>], parentFrame |-> "kingdomFungi"],
  [op |-> "create", line |-> 176, var |-> "classNeocallimastigomycetes",
   opts |-> [name |-> "Neocallimastigomycetes", rank |-> "Class",
            description |-> "Contains 1 order.",
            attributes |-> <<>>], parentFrame |-> "phylumNeocallimastigomycota"],
  [op |-> "create", line |-> 187, var |-> "orderNeocallimastigales",
   opts |-> [name |-> "Neocallimastigales", rank |-> "Order",
            description |-> "Digest cellulose; example genus is Neocallimastix.",
            attributes |-> <<>>], parentFrame |-> "classNeocallimastigomycetes"],
  [op |-> "create", line |-> 199, var |-> "phylumBlastocladiomycota",
   opts |-> [name |-> "Blastocladiomycota", rank |-> "Phylum",
            description |-> "Parasitic on plants and animals, some are saprotrophic; aquatic and terrestrial; flagellated; alternates between haploid and diploid generations (zygotic meiosis).",
            attributes |-> <<>>], parentFrame |-> "kingdomFungi"],
  [op |-> "create", line |-> 211, var |-> "classBlastocladiomycetes",
   opts |-> [name |-> "Blastocladiomycetes", rank |-> "Class",
            description |-> "Parasitic or saprotrophic; contains 1 order.",
            attributes |-> <<>>], parentFrame |-> "phylumBlastocladiomycota"],
  [op |-> "create", line |-> 222, var |-> "orderBlastocladiales",
   opts |-> [name |-> "Blastocladiales", rank |-> "Order",
            description |-> "Parasitic on many different substrates, including decaying fruits; example genera include Allomyces and Coelomomyces.",
            attributes |-> <<>>], parentFrame |-> "classBlastocladiomycetes"],
  [op |-> "create", line |-> 239, var |-> "phylumMicrosporidia",
   opts |-> [name |-> "Microsporidia", rank |-> "Phylum",
            description |-> "Parasitic on animals and protists; unicellular; highly reduced mitochondria; phylum not subdivided due to lack of well-defined phylogenetic relationships within the group.",
            attributes |-> <<>>], parentFrame |-> "kingdomFungi"],
  [op |-> "create", line |-> 251, var |-> "phylumGlomeromycota",
   opts |-> [name |-> "Glomeromycota", rank |-> "Phylum",
            description |-> "Forms obligate, mutualistic, symbiotic relationships in which hyphae penetrate into the cells of roots of plants and trees (arbuscular mycorrhizal associations); coenocytic hyphae; reproduces asexually; cell walls composed primarily of chitin.",
            attributes |-> <<>>], parentFrame |-> "kingdomFungi"],
  [op |-> "create", line |-> 263, var |-> "classArchaeosporomycetes",
   opts |-> [name |-> "Archaeosporomycetes", rank |-> "Class",
            description |-> "Arbuscular mycorrhizal; spores form singly or in loose clusters.",
            attributes |-> <<>>], parentFrame |-> "phylumGlomeromycota"],
  [op |-> "create", line |-> 275, var |-> "orderArchaeosporales",
   opts |-> [name |-> "Archaeosporales", rank |-> "Order",
            description |-> "Arbuscular mycorrhizal; example genera include Archaeospora and Geosiphon.",
            attributes |-> <<>>], parentFrame |-> "classArchaeosporomycetes"],
  [op |-> "create", line |-> 287, var |-> "classGlomeromycetes",
   opts |-> [name |-> "Glomeromycetes", rank |-> "Class",
            description |-> "Arbuscular mycorrhizal; single or clustered spores; contains 4 orders.",
            attributes |-> <<>>], parentFrame |-> "phylumGlomeromycota"],
  [op |-> "create", line |-> 299, var |-> "orderDiversisporales",
   opts |-> [name |-> "Diversisporales", rank |-> "Order",
            description |-> "Arbuscular mycorrhizal; forms complexes of spores; example genera include Acaulospora, Diversispora, and Pacispora.",
            attributes |-> <<>>], parentFrame |-> "classGlomeromycetes"],
  [op |-> "create", line |-> 310, var |-> "orderGigasporales",
   opts |-> [name |-> "Gigasporales", rank |-> "Order",
            description |-> "Arbuscular mycorrhizal; uses extra-radical auxiliary cells instead of vesicles in plant roots.",
            attributes |-> <<>>], parentFrame |-> "classGlomeromycetes"],
  [op |-> "create", line |-> 321, var |-> "orderGlomerales",
   opts |-> [name |-> "Glomerales", rank |-> "Order",
            description |-> "Arbuscular mycorrhizal; forms single spores, loose clusters of spores, or compact sporocarps (fruiting bodies); example genus is Glomus.",
            attributes |-> <<>>], parentFrame |-> "classGlomeromycetes"],
  [op |-> "create", line |-> 333, var |-> "classParaglomeromycetes",
   opts |-> [name |-> "Paraglomeromycetes", rank |-> "Class",
            description |-> "Arbuscular mycorrhizal; forms complexes of spores.",
            attributes |-> <<>>], parentFrame |-> "phylumGlomeromycota"],
  [op |-> "create", line |-> 344, var |-> "orderParaglomerales",
   opts |-> [name |-> "Paraglomerales", rank |-> "Order",
            description |-> "Arbuscular mycorrhizal; example genus is Paraglomus.",
            attributes |-> <<>>], parentFrame |-> "classParaglomeromycetes"],
  [op |-> "create", line |-> 356, var |-> "subphylumMucoromycotina",
   opts |-> [name |-> "Mucoromycotina (incertae sedis)", rank |-> "Subphylum",
            description |-> "Parasitic, saprotrophic, or ectomycorrhizal; asexual or sexual reproduction; branched mycelium; contains 3 orders that represent the traditional Zygomycota.",
            attributes |-> <<>>], parentFrame |-> "kingdomFungi"],
  [op |-> "create", line |-> 368, var |-> "orderMucorales",
   opts |-> [name |-> "Mucorales", rank |-> "Order",
            description |-> "Parasitic or saprotrophic; filamentous; nonmotile spores (aplanospores); coenocytic mycelium; asexual reproduction by formation of sporangiospores; example genera include Mucor, Parasitella, Phycomyces, Pilobolus, and Rhizopus.",
            attributes |-> <<>>], parentFrame |-> "subphylumMucoromycotina"],
  [op |-> "create", line |-> 379, var |-> "orderEndogonales",
   opts |-> [name |-> "Endogonales", rank |-> "Order",
            description |-> "Saprotrophic or mycorrhizal; filamentous; coenocytic mycelium; underground sporocarp; example genera include Endogone, Peridiospora, Sclerogone, and Youngiomyces.",
            attributes |-> <<>>], parentFrame |-> "subphylumMucoromycotina"],
  [op |-> "create", line |-> 390, var |-> "orderMortierellales",
   opts |-> [name |-> "Mortierellales", rank |-> "Order",
            description |-> "Parasitic or saprotrophic; fine mycelium, branched (arachnoid); sporangia with 1 or many spores; may form chlamydospores; produces garliclike odor; example genera include Mortierella, Dissophora, and Modicella.",
            attributes |-> <<>>], parentFrame |-> "subphylumMucoromycotina"],
  [op |-> "create", line |-> 402, var |-> "subphylumEntomophthoromycotina",
   opts |-> [name |-> "Entomophthoromycotina (incertae sedis)", rank |-> "Subphylum",
            description |-> "Pathogenic, saprotrophic, or parasitic; coenocytic or septate mycelium; rhizoids formed by some species; conidiophore branched or unbranched; conidia forcibly discharged; contains 1 order.",
            attributes |-> <<>>], parentFrame |-> "kingdomFungi"],
  [op |-> "create", line |-> 414, var |-> "orderEntomophthorales",
   opts |-> [name |-> "Entomophthorales", rank |-> "Order",
            description |-> "Primarily parasitic on insects, some may be saprotrophic in soil; coenocytic mycelium, may become septate; example genera include Entomophthora, Ballocephala, Conidiobolus, Entomophaga, and Neozygites.",
            attributes |-> <<>>], parentFrame |-> "subphylumEntomophthoromycotina"],
  [op |-> "create", line |-> 426, var |-> "subphylumZoopagomycotina",
   opts |-> [name |-> "Zoopagomycotina (incertae sedis)", rank |-> "Subphylum",
            description |-> "Endoparasitic (lives in the body) or ectoparasitic (lives on the body) on nematodes, protozoa, and fungi; thallus branched or unbranched; asexual and sexual reproduction; contains 1 order.",
            attributes |-> <<>>], parentFrame |-> "kingdomFungi"],
  [op |-> "create", line |-> 438, var |-> "orderZoopagales",
   opts |-> [name |-> "Zoopagales", rank |-> "Order",
            description |-> "Parasitic on amoebas, rotifers, nematodes, and other protozoa; asexual reproduction by conidia borne singly or in chains, not forcibly discharged; example genera include Cochlonema, Rhopalomyces, Piptocephalis, Sigmoideomyces, Syncephalis, and Zoopage.",
            attributes |-> <<>>], parentFrame |-> "subphylumZoopagomycotina"]>>

LinkStatements == <<
  [op |-> "link", line |-> 455, var |-> "kingdomFungi", key |-> "Chytridiomycota", child |-> "phylumChytridiomycota"],
  [op |-> "link", line |-> 456, var |-> "kingdomFungi", key |-> "Neocallimastigomycota", child |-> "phylumNeocallimastigomycota"],
  [op |-> "link", line |-> 457, var |-> "kingdomFungi", key |-> "Blastocladiomycota", child |-> "phylumBlastocladiomycota"],
  [op |-> "link", line |-> 460, var |-> "kingdomFungi", key |-> "Microsporidia", child |-> "phylumMicrosporidia"],
  [op |-> "link", line |-> 461, var |-> "kingdomFungi", key |-> "Glomeromycota", child |-> "phylumGlomeromycota"],
  [op |-> "link", line |-> 462, var |-> "kingdomFungi", key |-> "Mucoromycotina (incertae sedis)", child |-> "subphylumMucoromycotina"],
  [op |-> "link", line |-> 463, var |-> "kingdomFungi", key |-> "Entomophthoromycotina (incertae sedis)", child |-> "subphylumEntomophthoromycotina"],
  [op |-> "link", line |-> 464, var |-> "kingdomFungi", key |-> "Zoopagomycotina (incertae sedis)", child |-> "subphylumZoopagomycotina"],
  [op |-> "link", line |-> 467, var |-> "phylumChytridiomycota", key |-> "Chytridiomycetes", child |-> "classChytridiomycetes"],
  [op |-> "link", line |-> 468, var |-> "phylumChytridiomycota", key |-> "Monoblepharidomycetes", child |-> "classMonoblepharidomycetes"],
  [op |-> "link", line |-> 471, var |-> "classChytridiomycetes", key |-> "Chytridiales", child |-> "orderChytridiales"],
  [op |-> "link", line |-> 472, var |-> "classChytridiomycetes", key |-> "Rhizophydiales", child |-> "orderRhizophydiales"],
  [op |-> "link", line |-> 473, var |-> "classChytridiomycetes", key |-> "Spizellomycetales", child |-> "orderSpizellomycetales"],
  [op |-> "link", line |-> 476, var |-> "orderChytridiales", key |-> "Chytridium", child |-> "genusChytridium"],
  [op |-> "link", line |-> 479, var |-> "classMonoblepharidomycetes", key |-> "Monoblepharidales", child |-> "orderMonoblepharidales"],
  [op |-> "link", line |-> 482, var |-> "phylumNeocallimastigomycota", key |-> "Neocallimastigomycetes", child |-> "classNeocallimastigomycetes"],
  [op |-> "link", line |-> 483, var |-> "classNeocallimastigomycetes", key |-> "Neocallimastigales", child |-> "orderNeocallimastigales"],
  [op |-> "link", line |-> 486, var |-> "phylumBlastocladiomycota", key |-> "Blastocladiomycetes", child |-> "classBlastocladiomycetes"],
  [op |-> "link", line |-> 487, var |-> "classBlastocladiomycetes", key |-> "Blastocladiales", child |-> "orderBlastocladiales"],
  [op |-> "link", line |-> 490, var |-> "phylumGlomeromycota", key |-> "Archaeosporomycetes", child |-> "classArchaeosporomycetes"],
  [op |-> "link", line |-> 491, var |-> "phylumGlomeromycota", key |-> "Glomeromycetes", child |-> "classGlomeromycetes"],
  [op |-> "link", line |-> 492, var |-> "phylumGlomeromycota", key |-> "Paraglomeromycetes", child |-> "classParaglomeromycetes"],
  [op |-> "link", line |-> 495, var |-> "classArchaeosporomycetes", key |-> "Archaeosporales", child |-> "orderArchaeosporales"],
  [op |-> "link", line |-> 498, var |-> "classGlomeromycetes", key |-> "Diversisporales", child |-> "orderDiversisporales"],
  [op |-> "link", line |-> 499, var |-> "classGlomeromycetes", key |-> "Gigasporales", child |-> "orderGigasporales"],
  [op |-> "link", line |-> 500, var |-> "classGlomeromycetes", key |-> "Glomerales", child |-> "orderGlomerales"],
  [op |-> "link", line |-> 503, var |-> "classParaglomeromycetes", key |-> "Paraglomerales", child |-> "orderParaglomerales"],
  [op |-> "link", line |-> 506, var |-> "subphylumMucoromycotina", key |-> "Mucorales", child |-> "orderMucorales"],
  [op |-> "link", line |-> 507, var |-> "subphylumMucoromycotina", key |-> "Endogonales", child |-> "orderEndogonales"],
  [op |-> "link", line |-> 508, var |-> "subphylumMucoromycotina", key |-> "Mortierellales", child |-> "orderMortierellales"],
  [op |-> "link", line |-> 511, var |-> "subphylumEntomophthoromycotina", key |-> "Entomophthorales", child |-> "orderEntomophthorales"],
  [op |-> "link", line |-> 514, var |-> "subphylumZoopagomycotina", key |-> "Zoopagales", child |-> "orderZoopagales"]>>

ExportStatement == [op |-> "export", line |-> 520, var |-> "kingdomFungi"]

\* mutation: the first children assignment (line 455) is forgotten
ModuleScript_ForgottenLink ==
  FrameStatements \o Tail(LinkStatements) \o <<ExportStatement>>

\* mutation: a pasted children assignment attaches a frame a second time
ModuleScript_LinkedTwice ==
  FrameStatements \o LinkStatements
    \o <<[op |-> "link", line |-> 503, var |-> "classGlomeromycetes",
          key |-> "Paraglomerales", child |-> "orderParaglomerales"]>>
    \o <<ExportStatement>>

\* mutation: the key of the first children assignment is mistyped
ModuleScript_MistypedKey ==
  FrameStatements
    \o <<[LinkStatements[1] EXCEPT !.key = "Chytridomycota"]>>
    \o Tail(LinkStatements) \o <<ExportStatement>>

ModuleScript == FrameStatements \o LinkStatements \o <<ExportStatement>>


(***************************************************************************)
(* State.                                                                  *)
(***************************************************************************)
VARIABLES
  pc,              \* index in ModuleScript of the next statement; Null when
                   \* no module body is running (free-standing calls)
  heap,            \* the allocated frames, by reference
  env,             \* the module's const bindings: name -> reference
  fungiTaxonomy,   \* the exported root reference, Null before the export
  data,            \* the data prop of the root TaxonomyLevel, Null = not mounted
  expanded,        \* useState(false) #1 of every mounted instance
  showDescription, \* useState(false) #2 of every mounted instance
  dom              \* the rendered rows, in document order

vars == <<pc, heap, env, fungiTaxonomy, data, expanded, showDescription, dom>>

storeVars == <<pc, heap, env, fungiTaxonomy>>
viewVars  == <<data, expanded, showDescription, dom>>

(***************************************************************************)
(* TaxonomyLevel({ data, level }).  An instance is identified by the path  *)
(* of React keys (childKey) from the root instance; exp and show hold the  *)
(* state of the instances that are already mounted.                        *)
(***************************************************************************)
\* useState(false): the stored value, or the initial value on first render
useState(st, instance) == IF instance \in DOMAIN st THEN st[instance] ELSE FALSE

\* data.name.replace(/_/g, " ") over the names that occur in the model
ReplaceUnderscores(name) ==
  CASE name = "Rhizopus_stolonifer" -> "Rhizopus stolonifer"
    [] OTHER -> name

\* mutation: the length test is missing, an empty mapping passes
HasExpandButton_NoLengthTest(d) == "children" \in DOMAIN d

\* data.children && Object.keys(data.children).length > 0
HasExpandButton(d) == "children" \in DOMAIN d /\ Len(ObjectKeys(d.children)) > 0

\* mutation: the description button is rendered without the data.description test
RenderRow_ButtonAlways(d, level, instance, isExpanded, isShown) ==
  [instance          |-> instance,
   level             |-> level,
   label             |-> ReplaceUnderscores(d.name),
   rank              |-> d.rank,
   expandButton      |-> IF HasExpandButton(d)
                           THEN (IF isExpanded THEN "ChevronDown" ELSE "ChevronRight")
                           ELSE "none",
   descriptionButton |-> IF isShown THEN "Hide Description" ELSE "Show Description",
   descriptionText   |-> IF isShown /\ Truthy(d, "description")
                           THEN <<d.description>> ELSE <<>>]

\* the row one instance renders (everything but its nested children)
RenderRow(d, level, instance, isExpanded, isShown) ==
  [instance          |-> instance,
   level             |-> level,
   label             |-> ReplaceUnderscores(d.name),
   rank              |-> d.rank,
   expandButton      |-> IF HasExpandButton(d)
                           THEN (IF isExpanded THEN "ChevronDown" ELSE "ChevronRight")
                           ELSE "none",
   descriptionButton |-> IF Truthy(d, "description")
                           THEN (IF isShown THEN "Hide Description" ELSE "Show Description")
                           ELSE "none",
   descriptionText   |-> IF isShown /\ Truthy(d, "description")
                           THEN <<d.description>> ELSE <<>>]

RECURSIVE TaxonomyLevel(_, _, _, _, _, _)
RECURSIVE MapEntries(_, _, _, _, _, _, _)

\* mutation: the children are rendered last entry first
MapEntries_Reversed(h, entries, i, level, instance, exp, show) ==
  IF i > Len(entries) THEN <<>>
  ELSE MapEntries(h, entries, i + 1, level, instance, exp, show)
         \o TaxonomyLevel(h, entries[i][2], level + 1, Append(instance, entries[i][1]), exp, show)

\* Object.entries(data.children).map(([childKey, childTaxon]) => <TaxonomyLevel .../>)
MapEntries(h, entries, i, level, instance, exp, show) ==
  IF i > Len(entries) THEN <<>>
  ELSE TaxonomyLevel(h, entries[i][2], level + 1, Append(instance, entries[i][1]), exp, show)
         \o MapEntries(h, entries, i + 1, level, instance, exp, show)

\* mutation: the children are rendered whether or not the instance is expanded
TaxonomyLevel_IgnoresExpanded(h, ref, level, instance, exp, show) ==
  LET d          == h[ref]
      isExpanded == useState(exp, instance)
      isShown    == useState(show, instance)
  IN <<RenderRow(d, level, instance, isExpanded, isShown)>>
       \o (IF "children" \in DOMAIN d
             THEN MapEntries(h, ObjectEntries(d.children), 1, level, instance, exp, show)
             ELSE <<>>)

TaxonomyLevel(h, ref, level, instance, exp, show) ==
  LET d          == h[ref]
      isExpanded == useState(exp, instance)
      isShown    == useState(show, instance)
  IN <<RenderRow(d, level, instance, isExpanded, isShown)>>
       \o (IF isExpanded /\ "children" \in DOMAIN d
             THEN MapEntries(h, ObjectEntries(d.children), 1, level, instance, exp, show)
             ELSE <<>>)

\* the instances a rendering mounts
Instances(rows) == {rows[i].instance : i \in 1..Len(rows)}

\* The view after React has re-rendered with the hook values exp and show:
\* instances that stay keep their state, new ones start from useState(false),
\* instances no longer rendered are unmounted and their state is dropped.
Commit(h, root, exp, show) ==
  LET rows == TaxonomyLevel(h, root, 0, <<>>, exp, show)
  IN [dom             |-> rows,
      expanded        |-> [i \in Instances(rows) |-> useState(exp, i)],
      showDescription |-> [i \in Instances(rows) |-> useState(show, i)]]

\* mutation: setExpanded(true) instead of setExpanded(!expanded)
ClickExpand_OnlyOpens(h, root, exp, show, instance) ==
  Commit(h, root, [exp EXCEPT ![instance] = TRUE], show)

\* mutation: the expand click also resets the instance's description state
ClickExpand_HidesDescription(h, root, exp, show, instance) ==
  Commit(h, root, [exp EXCEPT ![instance] = ~@], [show EXCEPT ![instance] = FALSE])

\* onClick={() => setExpanded(!expanded)} of the instance, then the re-render
ClickExpand(h, root, exp, show, instance) ==
  Commit(h, root, [exp EXCEPT ![instance] = ~@], show)

\* mutation: one description flag shared by all instances
ClickDescription_SharedFlag(h, root, exp, show, instance) ==
  Commit(h, root, exp, [i \in DOMAIN show |-> ~show[instance]])

\* onClick={() => setShowDescription(!showDescription)}, then the re-render
ClickDescription(h, root, exp, show, instance) ==
  Commit(h, root, exp, [show EXCEPT ![instance] = ~@])

RowOf(rows, instance) == rows[CHOOSE i \in 1..Len(rows) : rows[i].instance = instance]

NumExpanded == Cardinality({i \in DOMAIN expanded : expanded[i]})
NumShown    == Cardinality({i \in DOMAIN showDescription : showDescription[i]})

(***************************************************************************)
(* Actions of the application: the module body, then Home, then clicks.    *)
(***************************************************************************)
NoView ==
  /\ data = Null
  /\ expanded = <<>>
  /\ showDescription = <<>>
  /\ dom = <<>>

Init ==
  /\ pc = 1
  /\ heap = <<>>
  /\ env = <<>>
  /\ fungiTaxonomy = Null
  /\ NoView

\* mutation: the call also registers the new frame in its parent's children
StmtCreate_AttachesToParent ==
  /\ pc \in 1..Len(ModuleScript)
  /\ ModuleScript[pc].op = "create"
  /\ LET s      == ModuleScript[pc]
         parent == IF "parentFrame" \in DOMAIN s THEN env[s.parentFrame] ELSE Null
         ref    == Len(heap) + 1
         made   == Append(heap, createTaxonFrame(heap, s.opts, parent))
     IN /\ heap' = IF parent = Null THEN made
                   ELSE AssignChild(made, parent, s.opts.name, ref)
        /\ env'  = env @@ (s.var :> ref)
  /\ pc' = pc + 1
  /\ UNCHANGED <<fungiTaxonomy, viewVars>>

\* const <var> = createTaxonFrame({...}, <parentFrame>)
StmtCreate ==
  /\ pc \in 1..Len(ModuleScript)
  /\ ModuleScript[pc].op = "create"
  /\ LET s      == ModuleScript[pc]
         parent == IF "parentFrame" \in DOMAIN s THEN env[s.parentFrame] ELSE Null
         ref    == Len(heap) + 1
     IN /\ heap' = Append(heap, createTaxonFrame(heap, s.opts, parent))
        /\ env'  = env @@ (s.var :> ref)
  /\ pc' = pc + 1
  /\ UNCHANGED <<fungiTaxonomy, viewVars>>

\* <var>.domain = "Eukaryota"
StmtDomain ==
  /\ pc \in 1..Len(ModuleScript)
  /\ ModuleScript[pc].op = "domain"
  /\ LET s == ModuleScript[pc]
     IN heap' = AssignDomain(heap, env[s.var], s.value)
  /\ pc' = pc + 1
  /\ UNCHANGED <<env, fungiTaxonomy, viewVars>>

\* <var>.children.<key> = <child>
StmtLink ==
  /\ pc \in 1..Len(ModuleScript)
  /\ ModuleScript[pc].op = "link"
  /\ LET s == ModuleScript[pc]
     IN heap' = AssignChild(heap, env[s.var], s.key, env[s.child])
  /\ pc' = pc + 1
  /\ UNCHANGED <<env, fungiTaxonomy, viewVars>>

\* export const fungiTaxonomy = kingdomFungi
StmtExport ==
  /\ pc \in 1..Len(ModuleScript)
  /\ ModuleScript[pc].op = "export"
  /\ fungiTaxonomy' = env[ModuleScript[pc].var]
  /\ pc' = pc + 1
  /\ UNCHANGED <<heap, env, viewVars>>

\* the first render of <TaxonomyLevel data={root} level={0} />
Mount(root) ==
  /\ data = Null
  /\ LET v == Commit(heap, root, <<>>, <<>>)
     IN /\ data' = root
        /\ dom' = v.dom
        /\ expanded' = v.expanded
        /\ showDescription' = v.showDescription
  /\ UNCHANGED storeVars

\* Home: <TaxonomyLevel data={fungiTaxonomy} level={0} />
Home ==
  /\ pc = Len(ModuleScript) + 1
  /\ fungiTaxonomy # Null
  /\ Mount(fungiTaxonomy)

\* a click on the expand/collapse button of a mounted instance
ToggleExpanded(instance) ==
  /\ data # Null
  /\ instance \in Instances(dom)
  /\ RowOf(dom, instance).expandButton # "none"
  /\ expanded[instance] \/ NumExpanded < MaxExpanded
  /\ LET v == ClickExpand(heap, data, expanded, showDescription, instance)
     IN /\ dom' = v.dom
        /\ expanded' = v.expanded
        /\ showDescription' = v.showDescription
  /\ UNCHANGED <<storeVars, data>>

\* a click on the Show/Hide Description button of a mounted instance
ToggleDescription(instance) ==
  /\ data # Null
  /\ instance \in Instances(dom)
  /\ RowOf(dom, instance).descriptionButton # "none"
  /\ showDescription[instance] \/ NumShown < MaxShown
  /\ LET v == ClickDescription(heap, data, expanded, showDescription, instance)
     IN /\ dom' = v.dom
        /\ expanded' = v.expanded
        /\ showDescription' = v.showDescription
  /\ UNCHANGED <<storeVars, data>>

Next ==
  \/ StmtCreate
  \/ StmtDomain
  \/ StmtLink
  \/ StmtExport
  \/ Home
  \/ \E instance \in Instances(dom) : ToggleExpanded(instance)
  \/ \E instance \in Instances(dom) : ToggleDescription(instance)

Spec == Init /\ [][Next]_vars


(***************************************************************************)
(* Free-standing use of the same code: createTaxonFrame called with any    *)
(* of a few option objects, frames linked by hand, and a TaxonomyLevel     *)
(* mounted on any frame.  This reaches what the fixed module body never    *)
(* exercises: a missing attributes option, a missing or empty description, *)
(* and a Taxon literal without a children property.                        *)
(***************************************************************************)
\* option objects passed to createTaxonFrame
SampleOptions ==
  { [name |-> "Fungi", rank |-> "Kingdom", description |-> "X"],
    [name |-> "Rhizopus_stolonifer", rank |-> "Species", description |-> "",
     attributes |-> <<<<"habitat", "Soil">>>>] }

\* a Taxon written as a literal: description and children are optional
LeafLiteral ==
  [name |-> "Chytridium", rank |-> "Genus",
   attributes |-> <<<<"habitat", "Soil">>>>]

InitialHeaps == {<<>>, <<LeafLiteral>>}

NumEntries(h) ==
  Cardinality(UNION {{<<q, j>> : j \in 1..(IF "children" \in DOMAIN h[q]
                                             THEN Len(h[q].children) ELSE 0)}
                     : q \in 1..Len(h)})

\* the frames of h that createTaxonFrame made (it always sets children)
NumCreated(h) == Cardinality({r \in 1..Len(h) : "children" \in DOMAIN h[r]})

InitAny ==
  /\ pc = Null
  /\ heap \in InitialHeaps
  /\ env = <<>>
  /\ fungiTaxonomy = Null
  /\ NoView

\* createTaxonFrame(opts, parentFrame), the result kept by the caller
CallCreateTaxonFrame(opts, parentFrame) ==
  /\ pc = Null
  /\ data = Null
  /\ NumCreated(heap) < MaxFrames
  /\ heap' = Append(heap, createTaxonFrame(heap, opts, parentFrame))
  /\ UNCHANGED <<pc, env, fungiTaxonomy, viewVars>>

\* frame.domain = "Eukaryota"
SetDomain(ref) ==
  /\ pc = Null
  /\ data = Null
  /\ "domain" \notin DOMAIN heap[ref]
  /\ heap' = AssignDomain(heap, ref, "Eukaryota")
  /\ UNCHANGED <<pc, env, fungiTaxonomy, viewVars>>

\* parent.children[child.name] = child
LinkChild(parent, child) ==
  /\ pc = Null
  /\ data = Null
  /\ "children" \in DOMAIN heap[parent]
  /\ HasKey(heap[parent].children, heap[child].name) \/ NumEntries(heap) < MaxLinks
  /\ heap' = AssignChild(heap, parent, heap[child].name, child)
  /\ UNCHANGED <<pc, env, fungiTaxonomy, viewVars>>

\* <TaxonomyLevel data={frame} level={0} />
MountFrame(ref) ==
  /\ pc = Null
  /\ Mount(ref)

NextAny ==
  \/ \E opts \in SampleOptions, parentFrame \in 0..Len(heap) :
       CallCreateTaxonFrame(opts, parentFrame)
  \/ \E ref \in 1..Len(heap) : SetDomain(ref)
  \/ \E parent \in 1..Len(heap), child \in 1..Len(heap) : LinkChild(parent, child)
  \/ \E ref \in 1..Len(heap) : MountFrame(ref)
  \/ \E instance \in Instances(dom) : ToggleExpanded(instance)
  \/ \E instance \in Instances(dom) : ToggleDescription(instance)

SpecAny == InitAny /\ [][NextAny]_vars

(***************************************************************************)
(* Helpers for the properties.                                             *)
(***************************************************************************)
\* the proper prefixes of an instance path: its ancestors in the view
Ancestors(instance) == {SubSeq(instance, 1, k) : k \in 0..(Len(instance) - 1)}

IsBelow(instance, ancestor) == ancestor \in Ancestors(instance)

\* the key paths that lead from ref to a frame, at most depth keys long
RECURSIVE PathsFrom(_, _, _, _)
PathsFrom(h, ref, path, depth) ==
  {path} \cup
    (IF depth = 0 \/ "children" \notin DOMAIN h[ref] THEN {}
     ELSE UNION {PathsFrom(h, h[ref].children[i][2],
                           Append(path, h[ref].children[i][1]), depth - 1)
                 : i \in 1..Len(h[ref].children)})

\* every position of the tree handed to the root TaxonomyLevel
AllPaths == PathsFrom(heap, data, <<>>, Len(heap))

\* the frame an instance path denotes
RECURSIVE Resolve(_, _, _)
Resolve(h, ref, path) ==
  IF path = <<>> THEN ref
  ELSE Resolve(h, Lookup(h[ref].children, Head(path)), Tail(path))

IsExpanded(instance) == instance \in DOMAIN expanded /\ expanded[instance]
IsShown(instance) == instance \in DOMAIN showDescription /\ showDescription[instance]

ChildPaths(instance) ==
  LET d == heap[Resolve(heap, data, instance)]
  IN IF "children" \in DOMAIN d
       THEN {Append(instance, d.children[i][1]) : i \in 1..Len(d.children)}
       ELSE {}

Mounted == data # Null

\* C1: once the root is mounted, the root's row is rendered, and a non-root
\* position of the tree has a rendered row if and only if every ancestor of
\* it is mounted and expanded; no row is rendered twice; with nothing
\* expanded exactly the root row is shown, and with only the root expanded
\* exactly the root and its direct children are.
C1_RenderedIffAncestorsExpanded ==
  Mounted =>
    /\ <<>> \in Instances(dom)
    /\ Len(dom) = Cardinality(Instances(dom))
    /\ Instances(dom) \subseteq AllPaths
    /\ DOMAIN expanded = Instances(dom)
    /\ \A p \in AllPaths \ {<<>>} :
         (p \in Instances(dom)) <=> (\A a \in Ancestors(p) : IsExpanded(a))
    /\ (NumExpanded = 0 => Instances(dom) = {<<>>})
    /\ ({i \in DOMAIN expanded : expanded[i]} = {<<>>}
          => Instances(dom) = {<<>>} \cup ChildPaths(<<>>))

\* C1 witness: the root and its first child are expanded and a second child
\* is collapsed, so grandchildren of one child are rendered and those of
\* the other are not.
C1_Witness ==
  /\ Mounted
  /\ IsExpanded(<<>>)
  /\ IsExpanded(<<"Chytridiomycota">>)
  /\ <<"Glomeromycota">> \in DOMAIN expanded /\ ~expanded[<<"Glomeromycota">>]
  /\ <<"Chytridiomycota", "Chytridiomycetes">> \in Instances(dom)
  /\ <<"Glomeromycota", "Glomeromycetes">> \notin Instances(dom)


\* the view after two consecutive clicks on the expand button of an instance
TwiceExpand(instance) ==
  LET v == ClickExpand(heap, data, expanded, showDescription, instance)
  IN ClickExpand(heap, data, v.expanded, v.showDescription, instance)

\* the view after two consecutive clicks on its description button
TwiceDescription(instance) ==
  LET v == ClickDescription(heap, data, expanded, showDescription, instance)
  IN ClickDescription(heap, data, v.expanded, v.showDescription, instance)

HasExpandControl(instance) ==
  instance \in Instances(dom) /\ RowOf(dom, instance).expandButton # "none"

HasDescriptionControl(instance) ==
  instance \in Instances(dom) /\ RowOf(dom, instance).descriptionButton # "none"

RowsBelow(rows, instance) == {i \in Instances(rows) : IsBelow(i, instance)}

ChildRows(rows, instance) ==
  {i \in Instances(rows) : IsBelow(i, instance) /\ Len(i) = Len(instance) + 1}

\* C2 as stated: two clicks on an instance's expand button leave the set of
\* rows rendered below it as it was, and two clicks on its description
\* button leave its description visibility as it was.
C2_TwiceRestoresRowsBelow ==
  Mounted =>
    /\ \A n \in Instances(dom) : HasExpandControl(n) =>
         RowsBelow(TwiceExpand(n).dom, n) = RowsBelow(dom, n)
    /\ \A n \in Instances(dom) : HasDescriptionControl(n) =>
         TwiceDescription(n).showDescription[n] = showDescription[n]

\* C2 amended: two clicks on an instance's expand button restore its own
\* expanded value and the set of its direct child rows; if it was collapsed
\* the whole view is restored; if it was expanded, every instance below it
\* has been remounted and is collapsed with its description hidden, so no
\* row deeper than its direct children is rendered.  Two clicks on its
\* description button restore the whole view.
C2_TwiceRestoresChildRows ==
  Mounted =>
    /\ \A n \in Instances(dom) : HasExpandControl(n) =>
         \A v \in {TwiceExpand(n)} :
            /\ v.expanded[n] = expanded[n]
            /\ ChildRows(v.dom, n) = ChildRows(dom, n)
            /\ \A m \in Instances(dom) : ~IsBelow(m, n) =>
                 /\ m \in Instances(v.dom)
                 /\ RowOf(v.dom, m) = RowOf(dom, m)
            /\ ~expanded[n] =>
                 /\ v.dom = dom
                 /\ v.expanded = expanded
                 /\ v.showDescription = showDescription
            /\ expanded[n] =>
                 /\ RowsBelow(v.dom, n) = ChildRows(dom, n)
                 /\ \A m \in RowsBelow(v.dom, n) :
                      ~v.expanded[m] /\ ~v.showDescription[m]
    /\ \A n \in Instances(dom) : HasDescriptionControl(n) =>
         \A v \in {TwiceDescription(n)} :
            /\ v.dom = dom
            /\ v.expanded = expanded
            /\ v.showDescription = showDescription

\* C2 witness: an expanded instance with an expanded child whose description
\* is shown: the case in which two clicks do not bring the deeper rows back.
C2_Witness ==
  /\ Mounted
  /\ IsExpanded(<<>>)
  /\ IsExpanded(<<"Glomeromycota">>)
  /\ IsShown(<<"Glomeromycota">>)
  /\ RowsBelow(TwiceExpand(<<>>).dom, <<>>) # RowsBelow(dom, <<>>)
  /\ ChildRows(TwiceExpand(<<>>).dom, <<>>) = ChildRows(dom, <<>>)


\* the step is a click on one of the two buttons of instance n
Toggles(n) == ToggleExpanded(n) \/ ToggleDescription(n)

\* C3 as stated: a click on a button of instance n leaves every other
\* mounted instance, the instances below n included, mounted with the same
\* expanded and showDescription values.
C3_ToggleKeepsEveryOtherInstance ==
  [][\A n \in Instances(dom) : Toggles(n) =>
       \A m \in Instances(dom) \ {n} :
         /\ m \in DOMAIN expanded' /\ m \in DOMAIN showDescription'
         /\ expanded'[m] = expanded[m]
         /\ showDescription'[m] = showDescription[m]]_vars

\* C3 amended: a click on a button of instance n leaves every other instance
\* that is not below n mounted with the same expanded and showDescription
\* values, and mounts nothing outside n's subtree.  The instances below n
\* are untouched by n's description click; n's collapse unmounts all of
\* them and discards their state; n's expansion mounts exactly n's direct
\* children, each collapsed with its description hidden.
C3_ToggleKeepsInstancesOutsideSubtree ==
  [][\A n \in Instances(dom) :
     \A isExpandClick \in {ToggleExpanded(n)}, isDescriptionClick \in {ToggleDescription(n)} :
     (isExpandClick \/ isDescriptionClick) =>
       /\ \A m \in Instances(dom) \ {n} : ~IsBelow(m, n) =>
            /\ m \in DOMAIN expanded' /\ m \in DOMAIN showDescription'
            /\ expanded'[m] = expanded[m]
            /\ showDescription'[m] = showDescription[m]
       /\ \A m \in Instances(dom') \ Instances(dom) : IsBelow(m, n)
       /\ isDescriptionClick =>
            /\ Instances(dom') = Instances(dom)
            /\ \A m \in Instances(dom) \ {n} :
                 /\ expanded'[m] = expanded[m]
                 /\ showDescription'[m] = showDescription[m]
       /\ (isExpandClick /\ expanded[n]) =>
            RowsBelow(dom', n) = {}
       /\ (isExpandClick /\ ~expanded[n]) =>
            /\ RowsBelow(dom, n) = {}
            /\ RowsBelow(dom', n) = ChildPaths(n)
            /\ \A m \in RowsBelow(dom', n) :
                 ~expanded'[m] /\ ~showDescription'[m]]_vars

\* C3 witness: clicks have been made on several instances while others were
\* mounted: the root and a child are expanded, that child's children are
\* rendered, and a sibling of it shows its description.
C3_Witness ==
  /\ Mounted
  /\ IsExpanded(<<>>)
  /\ IsExpanded(<<"Chytridiomycota">>)
  /\ <<"Chytridiomycota", "Monoblepharidomycetes">> \in Instances(dom)
  /\ IsShown(<<"Neocallimastigomycota">>)
  /\ ~IsShown(<<"Chytridiomycota">>)

\* C4: for an instance that is mounted before and after a step, the expand
\* click flips its expanded and keeps its showDescription, the description
\* click flips its showDescription and keeps its expanded, and neither
\* value changes in any other step.  (All four combinations occur: see the
\* witness.)
C4_IndependentBooleans ==
  [][\A i \in Instances(dom) \cap Instances(dom') :
       \A isExpandClick \in {ToggleExpanded(i)}, isDescriptionClick \in {ToggleDescription(i)} :
         /\ isExpandClick =>
              expanded'[i] = ~expanded[i] /\ showDescription'[i] = showDescription[i]
         /\ isDescriptionClick =>
              showDescription'[i] = ~showDescription[i] /\ expanded'[i] = expanded[i]
         /\ expanded'[i] # expanded[i] => isExpandClick
         /\ showDescription'[i] # showDescription[i] => isDescriptionClick]_vars

\* C4 witness: one state in which four instances with both buttons are in
\* the four combinations expanded/shown, expanded/hidden, collapsed/shown
\* and collapsed/hidden.
C4_Witness ==
  /\ Mounted
  /\ IsExpanded(<<>>) /\ IsShown(<<>>)
  /\ IsExpanded(<<"Chytridiomycota">>) /\ ~IsShown(<<"Chytridiomycota">>)
  /\ <<"Glomeromycota">> \in Instances(dom)
  /\ ~IsExpanded(<<"Glomeromycota">>) /\ IsShown(<<"Glomeromycota">>)
  /\ <<"Blastocladiomycota">> \in Instances(dom)
  /\ ~IsExpanded(<<"Blastocladiomycota">>) /\ ~IsShown(<<"Blastocladiomycota">>)
  /\ \A i \in {<<>>, <<"Chytridiomycota">>, <<"Glomeromycota">>, <<"Blastocladiomycota">>} :
       HasExpandControl(i) /\ HasDescriptionControl(i)


(***************************************************************************)
(* The constructed structure.                                              *)
(***************************************************************************)
Refs == 1..Len(heap)

ChildrenOf(ref) ==
  IF "children" \in DOMAIN heap[ref] THEN heap[ref].children ELSE <<>>

\* the frames reached from ref by following at most depth children lookups
RECURSIVE ReachWithin(_, _)
ReachWithin(ref, depth) ==
  {ref} \cup
    (IF depth = 0 THEN {}
     ELSE UNION {ReachWithin(ChildrenOf(ref)[i][2], depth - 1)
                 : i \in 1..Len(ChildrenOf(ref))})

\* the frames reached from ref by following zero or more children lookups
\* (a frame that is reached at all is reached within Len(heap) lookups)
ReachableFrom(ref) == ReachWithin(ref, Len(heap))

\* the frames reached from ref by following one or more children lookups
Descendants(ref) ==
  UNION {ReachableFrom(ChildrenOf(ref)[i][2]) : i \in 1..Len(ChildrenOf(ref))}

\* every entry of every children mapping, as <<parent, position>>
Entries == UNION {{<<q, j>> : j \in 1..Len(ChildrenOf(q))} : q \in Refs}

\* the places <<parent, key>> at which a frame is attached
Attachments(ref) ==
  {<<e[1], ChildrenOf(e[1])[e[2]][1]>> :
     e \in {x \in Entries : ChildrenOf(x[1])[x[2]][2] = ref}}

\* the frames that are attached somewhere; each entry attaches one frame, so
\* no frame is attached at two places iff there are as many as entries
AttachedRefs == {ChildrenOf(e[1])[e[2]][2] : e \in Entries}

Exported == fungiTaxonomy # Null

NumCreateStatements ==
  Cardinality({i \in 1..Len(ModuleScript) : ModuleScript[i].op = "create"})

\* C7: once the module body has run to its export, every frame that
\* createTaxonFrame returned is reachable from fungiTaxonomy by following
\* zero or more children lookups.
C7_EveryFrameReachable ==
  Exported =>
    /\ Len(heap) = NumCreateStatements
    /\ Refs \subseteq ReachableFrom(fungiTaxonomy)

\* C7 witness: the export has happened, all 33 frames exist and the deepest
\* one (the genus) is reached through four children lookups.
C7_Witness ==
  /\ Exported
  /\ Len(heap) = 33
  /\ <<"Chytridiomycota", "Chytridiomycetes", "Chytridiales", "Chytridium">>
       \in PathsFrom(heap, fungiTaxonomy, <<>>, Len(heap))
  /\ env["genusChytridium"] \in ReachableFrom(fungiTaxonomy)

\* C8: at every point of the construction no frame is among its own
\* descendants and no frame is attached at more than one place; once the
\* export has happened the root is attached nowhere and every other frame
\* is attached to exactly one parent under exactly one key.
C8_TreeShape ==
  /\ \A ref \in Refs : ref \notin Descendants(ref)
  /\ Cardinality(AttachedRefs) = Cardinality(Entries)
  /\ Exported => AttachedRefs = Refs \ {fungiTaxonomy}

\* C8 witness: the finished structure, where the root has eight children
\* and a frame three levels down has a child of its own.
C8_Witness ==
  /\ Exported
  /\ Len(ChildrenOf(fungiTaxonomy)) = 8
  /\ Attachments(env["genusChytridium"]) = {<<env["orderChytridiales"], "Chytridium">>}
  /\ Cardinality(Descendants(fungiTaxonomy)) = 32

\* C9: at every point of the construction, every key k of every frame's
\* children mapping maps to a frame whose name is k.
C9_KeyConsistency ==
  \A p \in Refs : \A i \in 1..Len(ChildrenOf(p)) :
    heap[ChildrenOf(p)[i][2]].name = ChildrenOf(p)[i][1]

\* C9 witness: the finished structure with all 32 children entries, one of
\* them under a key that is not an identifier.
C9_Witness ==
  /\ Exported
  /\ Cardinality(Entries) = 32
  /\ HasKey(ChildrenOf(fungiTaxonomy), "Mucoromycotina (incertae sedis)")
  /\ Lookup(ChildrenOf(fungiTaxonomy), "Mucoromycotina (incertae sedis)")
       = env["subphylumMucoromycotina"]


\* the Taxon object an instance received as its data prop
DataOf(instance) == heap[Resolve(heap, data, instance)]

IsLeaf(d) == "children" \notin DOMAIN d \/ Len(d.children) = 0

\* C5: a rendered instance whose data has an empty children mapping, or no
\* children property, has no expand/collapse button, no click on one is
\* enabled for it, and its expanded value is false.
C5_LeafSuppression ==
  Mounted =>
    \A i \in Instances(dom) : IsLeaf(DataOf(i)) =>
      /\ RowOf(dom, i).expandButton = "none"
      /\ ~ENABLED ToggleExpanded(i)
      /\ ~expanded[i]

\* C5 witness: under an expanded root, a rendered child without a children
\* property, next to the root which does have an expand button.
C5_Witness ==
  /\ Mounted
  /\ IsExpanded(<<>>)
  /\ RowOf(dom, <<>>).expandButton = "ChevronDown"
  /\ \E i \in Instances(dom) :
       /\ i # <<>>
       /\ "children" \notin DOMAIN DataOf(i)
       /\ RowOf(dom, i).expandButton = "none"
       /\ IsShown(<<>>)

\* C6: an instance whose data has no description, or an empty one, renders
\* no description button and no description text, and no click on a
\* description button is enabled for it; an instance whose data has a
\* description renders the text, verbatim, exactly when its showDescription
\* is true, and its button reads "Show Description" when the text is hidden
\* and "Hide Description" when it is shown.
C6_DescriptionSuppression ==
  Mounted =>
    \A i \in Instances(dom) :
      LET d == DataOf(i)
          r == RowOf(dom, i)
      IN IF "description" \in DOMAIN d /\ d.description # ""
           THEN /\ r.descriptionText =
                     (IF showDescription[i] THEN <<d.description>> ELSE <<>>)
                /\ r.descriptionButton =
                     (IF showDescription[i] THEN "Hide Description"
                                            ELSE "Show Description")
           ELSE /\ r.descriptionButton = "none"
                /\ r.descriptionText = <<>>
                /\ ~showDescription[i]
                /\ ~ENABLED ToggleDescription(i)

\* C6 witness: a root with description "X" whose text is shown under a
\* "Hide Description" button, with a rendered child that has no description
\* and renders neither button nor text.
C6_Witness ==
  /\ Mounted
  /\ Truthy(DataOf(<<>>), "description")
  /\ DataOf(<<>>).description = "X"
  /\ RowOf(dom, <<>>).descriptionButton = "Hide Description"
  /\ RowOf(dom, <<>>).descriptionText = <<"X">>
  /\ \E i \in Instances(dom) :
       /\ "description" \notin DOMAIN DataOf(i)
       /\ RowOf(dom, i).descriptionButton = "none"
       /\ RowOf(dom, i).descriptionText = <<>>

\* C10: every createTaxonFrame call returns a frame that has an attributes
\* property; it is the empty mapping when the options carry no attributes
\* and the given mapping otherwise; and no later step removes or changes
\* the attributes of a frame.
C10_AttributesDefault ==
  [][/\ \A opts \in SampleOptions, parentFrame \in 0..Len(heap) :
          CallCreateTaxonFrame(opts, parentFrame) =>
            LET frame == heap'[Len(heap')]
            IN /\ "attributes" \in DOMAIN frame
               /\ "attributes" \notin DOMAIN opts => frame.attributes = <<>>
               /\ "attributes" \in DOMAIN opts => frame.attributes = opts.attributes
     /\ \A ref \in Refs : "attributes" \in DOMAIN heap[ref] =>
          /\ ref \in 1..Len(heap')
          /\ "attributes" \in DOMAIN heap'[ref]
          /\ heap'[ref].attributes = heap[ref].attributes]_vars

\* C10 witness: a frame made from the options without attributes, with a
\* parent that has a domain, holds an empty attributes mapping and has
\* since been given a child.
C10_Witness ==
  \E ref \in Refs :
    /\ heap[ref].name = "Fungi"
    /\ "inheritedDomain" \in DOMAIN heap[ref]
    /\ "attributes" \in DOMAIN heap[ref]
    /\ heap[ref].attributes = <<>>
    /\ Len(ChildrenOf(ref)) > 0


\* C11: a createTaxonFrame call of the module body allocates one frame whose
\* children mapping is empty, leaves every frame allocated before (the
\* parent included) exactly as it was, and attaches the new frame nowhere;
\* the set of attached frames changes only in a children assignment.
C11_CreateLeavesOthersUnchanged ==
  [][/\ StmtCreate =>
          LET new == Len(heap) + 1
          IN /\ Len(heap') = new
             /\ heap'[new].children = <<>>
             /\ SubSeq(heap', 1, Len(heap)) = heap
             /\ new \notin AttachedRefs'
             /\ Entries' = Entries
     /\ AttachedRefs' # AttachedRefs => StmtLink]_vars

\* C11 witness: the first phylum has been created with the kingdom as its
\* parent (it carries the copied domain), and the kingdom's children
\* mapping is still empty.
C11_Witness ==
  /\ "phylumChytridiomycota" \in DOMAIN env
  /\ "inheritedDomain" \in DOMAIN heap[env["phylumChytridiomycota"]]
  /\ ChildrenOf(env["kingdomFungi"]) = <<>>
  /\ ChildrenOf(env["phylumChytridiomycota"]) = <<>>
  /\ env["phylumChytridiomycota"] \notin AttachedRefs


\* the position of key k in the children mapping of the frame at path p
KeyPosition(p, k) ==
  LET m == ChildrenOf(Resolve(heap, data, p))
  IN CHOOSE i \in 1..Len(m) : m[i][1] = k

\* the length of the longest common prefix of two paths
CommonPrefix(p, q) ==
  LET n == IF Len(p) < Len(q) THEN Len(p) ELSE Len(q)
  IN CHOOSE k \in 0..n :
       /\ \A i \in 1..k : p[i] = q[i]
       /\ k = n \/ p[k + 1] # q[k + 1]

\* p comes before q in the pre-order traversal of the tree: p is a proper
\* ancestor of q, or where the two paths part p takes the child that was
\* inserted earlier into the common ancestor's children mapping
PreOrderBefore(p, q) ==
  LET k == CommonPrefix(p, q)
  IN IF k = Len(p) THEN Len(q) > Len(p)
     ELSE IF k = Len(q) THEN FALSE
     ELSE KeyPosition(SubSeq(p, 1, k), p[k + 1]) < KeyPosition(SubSeq(p, 1, k), q[k + 1])

\* C12: the rendered rows are exactly the positions of the tree whose
\* ancestors are all expanded, each once, listed in pre-order (a parent
\* before its children, siblings in the insertion order of the parent's
\* children mapping), the root at level 0 and each child one level below
\* its parent.
C12_RenderOrder ==
  Mounted =>
    /\ Instances(dom) =
         {p \in AllPaths : \A a \in Ancestors(p) : IsExpanded(a)}
    /\ \A i \in 1..Len(dom) : \A j \in (i + 1)..Len(dom) :
         PreOrderBefore(dom[i].instance, dom[j].instance)
    /\ \A i \in 1..Len(dom) : dom[i].level = Len(dom[i].instance)

\* C12 witness: root and first phylum expanded: the phylum's two classes are
\* rendered, in insertion order, between the phylum and its next sibling.
C12_Witness ==
  /\ Mounted
  /\ Len(dom) = 11
  /\ [i \in 1..5 |-> dom[i].instance] =
       << <<>>,
          <<"Chytridiomycota">>,
          <<"Chytridiomycota", "Chytridiomycetes">>,
          <<"Chytridiomycota", "Monoblepharidomycetes">>,
          <<"Neocallimastigomycota">> >>
  /\ [i \in 1..5 |-> dom[i].level] = <<0, 1, 2, 2, 1>>
  /\ dom[11].instance = <<"Zoopagomycotina (incertae sedis)">>

\* the frames held directly in the children mapping of ref
DirectChildren(ref) ==
  {ChildrenOf(ref)[i][2] : i \in 1..Len(ChildrenOf(ref))}

=============================================================================
